---- MODULE Spec2Model ----
(***************************************************************************)
(* Model of the backend of the Pulsar datasource plugin:                   *)
(*   pkg/plugin/ns1client.go  PulsarClient (client registry, Apps/Jobs     *)
(*                            cache, buildURL, GetData)                    *)
(*   pkg/plugin/plugin.go     queryModel, PulsarDatasource.query           *)
(*                                                                         *)
(* Goroutines are the threads 1..NumThreads.  Each thread runs one call at *)
(* a time; th[t] is its frame (position, arguments, locals, result).  A    *)
(* step is one access to shared state or one network exchange; purely      *)
(* local computation is folded into the step that precedes it.             *)
(*                                                                         *)
(* Time is counted in ticks of 1/TicksPerSecond second, so that            *)
(* time.Time.Unix() (whole seconds) is a real truncation.  Numbers of a    *)
(* JSON response body are fixed point with Scale units per 1.0, so that    *)
(* int64(float64) is a real truncation.                                    *)
(***************************************************************************)
EXTENDS Integers, Sequences, FiniteSets, TLC

(***************************************************************************)
(* Bounds of the model.                                                    *)
(***************************************************************************)
NumThreads == 2
MaxCalls == 3
MaxClockSteps == 2
MaxLen == 3

TicksPerSecond == 2
Scale == 2

Threads == 1 .. NumThreads

(***************************************************************************)
(* Program constants.                                                      *)
(***************************************************************************)
appsDefaultTTL == 600

errAuthorizationDenied == "invalid API key"
errDataRetrieval == "error retrieving data"
errNoDataFound == "no data found"
metricTypePerformance == "performance"

StatusBadRequest == 400
StatusUnauthorized == 401
StatusForbidden == 403

\* error values that come from below the plugin (net/http, encoding/json, ns1-go)
NoError == "nil"
errTransport == "transport error"
errRead == "body read error"
errUnmarshal == "json unmarshal error"
errAPI == "ns1 api error"
errURLParse == "url parse error"
errAPIKeyNotFound == "NS1 API key not found"
\* a run-time panic of the Go program (the goroutine does not return)
Panic == "panic"

Keys == {"k1", "k2"}

VARIABLES
    apiClientCache,   \* PulsarClient.apiClientCache: key -> client
    apiClientLock,    \* PulsarClient.apiClientLock: 0, or the thread holding it
    clientSeq,        \* number of ns1api clients constructed so far
    data,             \* PulsarClient.data: the cached *PulsarData
    now,              \* wall clock, in ticks
    clockSteps,       \* number of clock advances so far
    calls,            \* number of calls started so far
    pulsarClient,     \* PulsarDatasource.pulsarClient: FALSE when nil, TRUE when it is this client
    th                \* per thread: the frame of its current call

vars == <<apiClientCache, apiClientLock, clientSeq, data, now, clockSteps, calls, pulsarClient, th>>

(***************************************************************************)
(* Values.                                                                 *)
(***************************************************************************)
EmptyMap == [k \in {} |-> 0]

\* a nil *ns1api.Client
NoClient == [id |-> 0, apiKey |-> ""]

\* ns1api.NewClient(httpClient, ns1api.SetAPIKey(apiKey)): a new object
NewClient(apiKey) == [id |-> clientSeq + 1, apiKey |-> apiKey]

\* a nil *GetAppsResponse
NilAppsResponse == [isNil |-> TRUE, Apps |-> <<>>, AppsMap |-> EmptyMap, JobsMap |-> EmptyMap]

\* a nil *PulsarData
NoData == [isNil |-> TRUE, applications |-> NilAppsResponse, ttl |-> 0, expiresOn |-> 0]

NoParams == [FetchInactiveApps |-> FALSE, FetchJobs |-> FALSE, FetchInactiveJobs |-> FALSE]

NoQuery == [AppID |-> "", JobID |-> "", MetricType |-> "", Geo |-> "", ASN |-> "",
            Aggregation |-> "", From |-> 0, To |-> 0, MaxDataPoints |-> 0]

NoURL == [path |-> "", query |-> <<>>]

NoResponse == [isNil |-> TRUE, StatusCode |-> 0, body |-> "none", entries |-> <<>>]

\* backend.DataQuery: the time range and MaxDataPoints of one query
NoDataQuery == [From |-> 0, To |-> 0, MaxDataPoints |-> 0]

\* DataPoints{}: no graph
NoDataPoints == [Graph |-> EmptyMap]

\* what a call returns.  err, client, apps, times, values: the results of the
\* PulsarClient methods.  For query(): respError is response.Error, hasFrame
\* tells whether response.Frames got its frame, label is the name of the
\* value field and meta is frame.Meta.Custom.
NoResult == [err |-> NoError, client |-> NoClient, apps |-> NilAppsResponse,
             times |-> <<>>, values |-> <<>>,
             respError |-> NoError, hasFrame |-> FALSE, label |-> <<>>, meta |-> <<>>]

\* the frame of a thread that runs no call
IdleFrame == [pc |-> "idle", op |-> "none", apiKey |-> "", params |-> NoParams,
              json |-> NoQuery, qm |-> NoQuery, client |-> NoClient, exists |-> FALSE, retTo |-> "none",
              pulsarApps |-> <<>>, appsResponse |-> NilAppsResponse, i |-> 0,
              dq |-> NoDataQuery, url |-> NoURL, resp |-> NoResponse, netCalls |-> 0,
              dp |-> NoDataPoints, ctxDone |-> FALSE, ret |-> NoResult]

\* a thread may start a call when it runs none
CanCall(t) == th[t].pc = "idle" /\ calls < MaxCalls

\* the call returns: locals are dropped; the arguments, the URL requested, the
\* response received from the network, whether the caller's context is done
\* and the result are kept
Return(f, result) ==
    [IdleFrame EXCEPT !.pc = "done", !.op = f.op, !.apiKey = f.apiKey, !.params = f.params,
                      !.json = f.json, !.qm = f.qm, !.dq = f.dq, !.url = f.url, !.resp = f.resp,
                      !.netCalls = f.netCalls, !.dp = f.dp, !.ctxDone = f.ctxDone,
                      !.ret = result]

\* the caller has taken the result of the call: the thread is free again
Idle(t) ==
    /\ th[t].pc = "done"
    /\ th' = [th EXCEPT ![t] = IdleFrame]
    /\ UNCHANGED <<pulsarClient, apiClientCache, apiClientLock, clientSeq, data, now, clockSteps, calls>>

(***************************************************************************)
(* getAPIClient (ns1client.go 342-356).  The section between Lock and      *)
(* Unlock is two steps: the read of the map, and the write of the map.     *)
(***************************************************************************)
\* a Lock() that lets everybody in
LockFree_NoMutex == TRUE

\* sync.RWMutex.Lock() proceeds only when nobody holds the lock
LockFree == apiClientLock = 0

\* getAPIClient called on its own (its callers are GetApps, GetJobs, GetData)
getAPIClient_Call(t) ==
    /\ CanCall(t)
    /\ \E k \in Keys :
         th' = [th EXCEPT ![t] = [IdleFrame EXCEPT !.pc = "gac_lock", !.op = "getAPIClient",
                                                   !.apiKey = k, !.retTo = "done"]]
    /\ calls' = calls + 1
    /\ UNCHANGED <<pulsarClient, apiClientCache, apiClientLock, clientSeq, data, now, clockSteps>>

\* pc.apiClientLock.Lock(); client, exists := pc.apiClientCache[apiKey]
getAPIClient_Lock(t) ==
    /\ th[t].pc = "gac_lock"
    /\ LockFree
    /\ apiClientLock' = t
    /\ th' = [th EXCEPT ![t].client = apiClientCache[th[t].apiKey],
                        ![t].exists = (apiClientCache[th[t].apiKey] # NoClient),
                        ![t].pc = "gac_unlock"]
    /\ UNCHANGED <<pulsarClient, apiClientCache, clientSeq, data, now, clockSteps, calls>>

\* getAPIClient that returns the client it found without unlocking
getAPIClient_Unlock_KeepsLockOnHit(t) ==
    /\ th[t].pc = "gac_unlock"
    /\ LET client == IF th[t].exists THEN th[t].client ELSE NewClient(th[t].apiKey)
       IN /\ apiClientCache' = IF th[t].exists
                                THEN apiClientCache
                                ELSE [apiClientCache EXCEPT ![th[t].apiKey] = client]
          /\ clientSeq' = IF th[t].exists THEN clientSeq ELSE clientSeq + 1
          /\ th' = [th EXCEPT ![t] =
                      IF th[t].retTo = "done"
                      THEN Return(th[t], [NoResult EXCEPT !.client = client])
                      ELSE [th[t] EXCEPT !.client = client, !.pc = th[t].retTo,
                                         !.retTo = "none"]]
    /\ apiClientLock' = IF th[t].exists THEN apiClientLock ELSE 0
    /\ UNCHANGED <<pulsarClient, data, now, clockSteps, calls>>

\* if !exists { client = ns1api.NewClient(...); pc.apiClientCache[apiKey] = client }
\* return client, with the deferred pc.apiClientLock.Unlock()
getAPIClient_Unlock(t) ==
    /\ th[t].pc = "gac_unlock"
    /\ LET client == IF th[t].exists THEN th[t].client ELSE NewClient(th[t].apiKey)
       IN /\ apiClientCache' = IF th[t].exists
                                THEN apiClientCache
                                ELSE [apiClientCache EXCEPT ![th[t].apiKey] = client]
          /\ clientSeq' = IF th[t].exists THEN clientSeq ELSE clientSeq + 1
          /\ th' = [th EXCEPT ![t] =
                      IF th[t].retTo = "done"
                      THEN Return(th[t], [NoResult EXCEPT !.client = client])
                      ELSE [th[t] EXCEPT !.client = client, !.pc = th[t].retTo,
                                         !.retTo = "none"]]
    /\ apiClientLock' = 0
    /\ UNCHANGED <<pulsarClient, data, now, clockSteps, calls>>

(***************************************************************************)
(* CheckAPIKey (ns1client.go 360-381).                                     *)
(***************************************************************************)
\* what client.PulsarJobs.List("*") can hand back as its *http.Response
ProbeStatuses == {200, 400, 401, 403}

HTTPStatus(code) == [isNil |-> FALSE, StatusCode |-> code, body |-> "none", entries |-> <<>>]

\* the test of the status code with 403 forgotten
IsDenied_Only401(response) ==
    /\ ~response.isNil
    /\ response.StatusCode = StatusUnauthorized

\* response != nil && (StatusCode == 401 || StatusCode == 403)
IsDenied(response) ==
    /\ ~response.isNil
    /\ (response.StatusCode = StatusUnauthorized \/ response.StatusCode = StatusForbidden)

\* the store written as getAPIClient writes it: only when the key is absent
StoreClient_IfAbsent(cache, apiKey, client) ==
    IF cache[apiKey] = NoClient THEN [cache EXCEPT ![apiKey] = client] ELSE cache

\* pc.apiClientCache[apiKey] = client
StoreClient(cache, apiKey, client) == [cache EXCEPT ![apiKey] = client]

\* client := ns1api.NewClient(httpClient, ns1api.SetAPIKey(apiKey))
CheckAPIKey_Call(t) ==
    /\ CanCall(t)
    /\ \E k \in Keys :
         th' = [th EXCEPT ![t] = [IdleFrame EXCEPT !.pc = "cak_probe", !.op = "CheckAPIKey",
                                                   !.apiKey = k, !.client = NewClient(k)]]
    /\ clientSeq' = clientSeq + 1
    /\ calls' = calls + 1
    /\ UNCHANGED <<pulsarClient, apiClientCache, apiClientLock, data, now, clockSteps>>

\* _, response, _ = client.PulsarJobs.List("*"), the error is discarded;
\* then the test of the status code
CheckAPIKey_Probe(t) ==
    /\ th[t].pc = "cak_probe"
    /\ \E response \in {NoResponse} \cup {HTTPStatus(c) : c \in ProbeStatuses} :
         LET f == [th[t] EXCEPT !.resp = response, !.netCalls = @ + 1]
         IN th' = [th EXCEPT ![t] =
                     IF IsDenied(response)
                     THEN Return(f, [NoResult EXCEPT !.err = errAuthorizationDenied])
                     ELSE [f EXCEPT !.pc = "cak_lock"]]
    /\ UNCHANGED <<pulsarClient, apiClientCache, apiClientLock, clientSeq, data, now, clockSteps, calls>>

\* pc.apiClientLock.Lock()
CheckAPIKey_Lock(t) ==
    /\ th[t].pc = "cak_lock"
    /\ LockFree
    /\ apiClientLock' = t
    /\ th' = [th EXCEPT ![t].pc = "cak_unlock"]
    /\ UNCHANGED <<pulsarClient, apiClientCache, clientSeq, data, now, clockSteps, calls>>

\* pc.apiClientCache[apiKey] = client; return nil, with the deferred Unlock()
CheckAPIKey_Unlock(t) ==
    /\ th[t].pc = "cak_unlock"
    /\ apiClientCache' = StoreClient(apiClientCache, th[t].apiKey, th[t].client)
    /\ apiClientLock' = 0
    /\ th' = [th EXCEPT ![t] = Return(th[t], NoResult)]
    /\ UNCHANGED <<pulsarClient, clientSeq, data, now, clockSteps, calls>>

(***************************************************************************)
(* CheckHealth (plugin.go 470-527): CheckAPIKey on a client of its own,    *)
(* which the datasource takes over when it has none.                       *)
(***************************************************************************)
\* the errors of getAPIKeyFromContext (529-545)
APIKeyErrors == {errAPIKeyNotFound}

\* CheckHealth up to the probe of CheckAPIKey: the API key from the context,
\* client = NewPulsarClient(), and in CheckAPIKey the ns1api client
CheckHealth_Call(t) ==
    /\ CanCall(t)
    /\ \/ /\ \E e \in APIKeyErrors :
               th' = [th EXCEPT ![t] =
                        Return([IdleFrame EXCEPT !.op = "CheckHealth"], [NoResult EXCEPT !.err = e])]
          /\ clientSeq' = clientSeq
       \/ /\ \E k \in Keys :
               th' = [th EXCEPT ![t] = [IdleFrame EXCEPT !.pc = "ch_probe", !.op = "CheckHealth",
                                                         !.apiKey = k, !.client = NewClient(k)]]
          /\ clientSeq' = clientSeq + 1
    /\ calls' = calls + 1
    /\ UNCHANGED <<pulsarClient, apiClientCache, apiClientLock, data, now, clockSteps>>

\* the probe of CheckAPIKey on the new client; on 401 or 403 CheckHealth
\* returns the error status, otherwise the new client stores the ns1api client
CheckHealth_Probe(t) ==
    /\ th[t].pc = "ch_probe"
    /\ \E response \in {NoResponse} \cup {HTTPStatus(c) : c \in ProbeStatuses} :
         LET f == [th[t] EXCEPT !.resp = response, !.netCalls = @ + 1]
         IN th' = [th EXCEPT ![t] =
                     IF IsDenied(response)
                     THEN Return(f, [NoResult EXCEPT !.err = errAuthorizationDenied])
                     ELSE [f EXCEPT !.pc = "ch_adopt"]]
    /\ UNCHANGED <<pulsarClient, apiClientCache, apiClientLock, clientSeq, data, now, clockSteps, calls>>

\* CheckHealth that takes over the new client whether or not the datasource
\* has one
CheckHealth_Adopt_Always(t) ==
    /\ th[t].pc = "ch_adopt"
    /\ pulsarClient' = TRUE
    /\ apiClientCache' = StoreClient([k \in Keys |-> NoClient], th[t].apiKey, th[t].client)
    /\ apiClientLock' = 0
    /\ data' = NoData
    /\ th' = [th EXCEPT ![t] = Return(th[t], NoResult)]
    /\ UNCHANGED <<clientSeq, now, clockSteps, calls>>

\* if p.pulsarClient == nil { p.pulsarClient = client }; return the status Ok
\* (518-526).  The new client has the ns1api client under its key, no data
\* and a free lock.
CheckHealth_Adopt(t) ==
    /\ th[t].pc = "ch_adopt"
    /\ IF pulsarClient
       THEN UNCHANGED <<pulsarClient, apiClientCache, apiClientLock, data>>
       ELSE /\ pulsarClient' = TRUE
            /\ apiClientCache' = StoreClient([k \in Keys |-> NoClient], th[t].apiKey, th[t].client)
            /\ apiClientLock' = 0
            /\ data' = NoData
    /\ th' = [th EXCEPT ![t] = Return(th[t], NoResult)]
    /\ UNCHANGED <<clientSeq, now, clockSteps, calls>>

(***************************************************************************)
(* The Apps/Jobs cache: PulsarData (ns1client.go 293-330).                 *)
(***************************************************************************)
\* time.Time.Unix(): whole seconds
Unix(ticks) == ticks \div TicksPerSecond

\* time.Duration of s seconds, in ticks
Seconds(s) == s * TicksPerSecond

\* the comparison of isExpired turned around
isExpired_Flipped(pd, t) == Unix(t) <= Unix(pd.expiresOn)

\* the comparison of isExpired with > in place of >=
isExpired_Strict(pd, t) == Unix(t) > Unix(pd.expiresOn)

\* time.Now().UTC().Unix() >= pd.expiresOn.UTC().Unix(), at time t
isExpired(pd, t) == Unix(t) >= Unix(pd.expiresOn)

\* NewPulsarData(appsResponse, ttl), at time t; setExpiration: expiresOn = Now + ttl
NewPulsarData(appsResponse, ttl, t) ==
    [isNil |-> FALSE, applications |-> appsResponse, ttl |-> ttl, expiresOn |-> t + ttl]

(***************************************************************************)
(* The remote API, seen through ns1-go: what Applications.List() and       *)
(* PulsarJobs.List(appID) can answer.                                      *)
(***************************************************************************)
PApp(id, name, active) == [ID |-> id, Name |-> name, Active |-> active]

PJob(id, name, active) == [JobID |-> id, Name |-> name, Active |-> active]

RemoteAppLists ==
    { <<PApp("A1", "app one", TRUE), PApp("A2", "app two", FALSE)>>,
      <<PApp("A2", "app two", FALSE), PApp("A1", "app one", TRUE)>> }

\* the one listing of the specifications that are about the cache
CacheAppLists == { <<PApp("A1", "app one", TRUE), PApp("A2", "app two", FALSE)>> }

RemoteJobLists(appID) ==
    IF appID = "A1"
    THEN { <<PJob("J1", "job one", TRUE), PJob("J2", "job two", FALSE)>> }
    ELSE { <<PJob("J3", "job three", TRUE)>> }

(***************************************************************************)
(* queryModel (plugin.go 330-353).                                         *)
(***************************************************************************)
\* validate that leaves an empty ASN as it is
validate_KeepsASN(qm) == [qm EXCEPT !.Geo = IF @ = "" THEN "*" ELSE @]

\* qm.validate(): "" becomes "*" for Geo and ASN
validate(qm) ==
    [qm EXCEPT !.Geo = IF @ = "" THEN "*" ELSE @,
               !.ASN = IF @ = "" THEN "*" ELSE @]

\* canQuery that does not look at the aggregation
canQuery_NoAggregation(qm) == qm.AppID # "" /\ qm.JobID # "" /\ qm.MetricType # ""

\* qm.canQuery()
canQuery(qm) == qm.AppID # "" /\ qm.JobID # "" /\ qm.MetricType # "" /\ qm.Aggregation # ""

(***************************************************************************)
(* buildURL (ns1client.go 503-528).  The URL string is kept as the text    *)
(* before the "?" and the list of "name=value" pieces in the order in      *)
(* which the Sprintf calls append them; %d of Time.Unix() is ToString of the *)
(* whole seconds.                                                          *)
(***************************************************************************)
\* apiClient.Endpoint.String(): the default endpoint of ns1-go
Endpoint == "https://api.nsone.net/v1/"

\* values with a control character, on which url.Parse fails
ControlTokens == {"US\n"}

Param(name, value) == [name |-> name, value |-> value]

\* buildURL with the test for "*" left out
buildURL_NoGlobal(endpoint, qm) ==
    LET path == IF qm.MetricType = metricTypePerformance
                THEN <<endpoint, "pulsar/query/performance/time">>
                ELSE <<endpoint, "pulsar/query/availability/time">>
        base == <<Param("start", ToString(Unix(qm.From))), Param("end", ToString(Unix(qm.To))),
                 Param("jobs", qm.JobID)>>
        agg == IF qm.Aggregation # "" THEN <<Param("agg", qm.Aggregation)>> ELSE <<>>
        area == <<Param("area", qm.Geo)>>
        asn == IF qm.ASN # "*" THEN <<Param("asn", qm.ASN)>> ELSE <<>>
        query == base \o agg \o area \o asn
    IN IF \E n \in 1 .. Len(query) : query[n].value \in ControlTokens
       THEN [err |-> errURLParse, url |-> NoURL]
       ELSE [err |-> NoError, url |-> [path |-> path, query |-> query]]

\* buildURL that appends agg whether or not there is an aggregation
buildURL_AlwaysAgg(endpoint, qm) ==
    LET path == IF qm.MetricType = metricTypePerformance
                THEN <<endpoint, "pulsar/query/performance/time">>
                ELSE <<endpoint, "pulsar/query/availability/time">>
        base == <<Param("start", ToString(Unix(qm.From))), Param("end", ToString(Unix(qm.To))),
                 Param("jobs", qm.JobID)>>
        agg == <<Param("agg", qm.Aggregation)>>
        area == IF qm.Geo = "*" THEN <<Param("area", "GLOBAL")>> ELSE <<Param("area", qm.Geo)>>
        asn == IF qm.ASN # "*" THEN <<Param("asn", qm.ASN)>> ELSE <<>>
        query == base \o agg \o area \o asn
    IN IF \E n \in 1 .. Len(query) : query[n].value \in ControlTokens
       THEN [err |-> errURLParse, url |-> NoURL]
       ELSE [err |-> NoError, url |-> [path |-> path, query |-> query]]

\* buildURL(endpoint, qm): the URL, or the error of url.Parse
buildURL(endpoint, qm) ==
    LET path == IF qm.MetricType = metricTypePerformance
                THEN <<endpoint, "pulsar/query/performance/time">>
                ELSE <<endpoint, "pulsar/query/availability/time">>
        base == <<Param("start", ToString(Unix(qm.From))), Param("end", ToString(Unix(qm.To))),
                 Param("jobs", qm.JobID)>>
        agg == IF qm.Aggregation # "" THEN <<Param("agg", qm.Aggregation)>> ELSE <<>>
        area == IF qm.Geo = "*" THEN <<Param("area", "GLOBAL")>> ELSE <<Param("area", qm.Geo)>>
        asn == IF qm.ASN # "*" THEN <<Param("asn", qm.ASN)>> ELSE <<>>
        query == base \o agg \o area \o asn
    IN IF \E n \in 1 .. Len(query) : query[n].value \in ControlTokens
       THEN [err |-> errURLParse, url |-> NoURL]
       ELSE [err |-> NoError, url |-> [path |-> path, query |-> query]]

(***************************************************************************)
(* GetData (ns1client.go 536-603): the answer of the remote API and what   *)
(* GetData makes of it.                                                    *)
(***************************************************************************)
\* the entries a response body can hold: JSON objects of numbers
BodyEntries ==
    { [timestamp |-> 100 * Scale, J1 |-> 1 * Scale],
      [timestamp |-> 200 * Scale + 1, J1 |-> 2 * Scale + 1],
      [timestamp |-> 300 * Scale, J2 |-> 7 * Scale] }

\* sequences of at most n entries
RECURSIVE SeqsUpTo(_)
SeqsUpTo(n) ==
    IF n = 0
    THEN { <<>> }
    ELSE LET shorter == SeqsUpTo(n - 1)
         IN shorter \cup { Append(s, e) : s \in { x \in shorter : Len(x) = n - 1 }, e \in BodyEntries }

DataStatuses == {200, StatusBadRequest, 500}

\* what httpClient.Do(req) can hand back: no response (a transport error), or
\* a status with a body that cannot be read, is not a JSON array of objects of
\* numbers, or is one
DataResponses ==
    {NoResponse}
      \cup { [isNil |-> FALSE, StatusCode |-> c, body |-> b, entries |-> <<>>] :
               c \in DataStatuses, b \in {"unreadable", "malformed"} }
      \cup { [isNil |-> FALSE, StatusCode |-> c, body |-> "array", entries |-> s] :
               c \in DataStatuses, s \in SeqsUpTo(MaxLen) }

\* no answer, or one entry: for the specifications that are not about the
\* content of the answer
FewResponses ==
    { NoResponse,
      [isNil |-> FALSE, StatusCode |-> 200, body |-> "array",
       entries |-> << [timestamp |-> 100 * Scale, J1 |-> 1 * Scale] >>] }

\* dataPoint[key] on a map[string]float64: the zero value for a missing key
Lookup(dataPoint, key) == IF key \in DOMAIN dataPoint THEN dataPoint[key] ELSE 0

\* int64(x) of a float64: truncation towards zero
Int64(x) == IF x >= 0 THEN x \div Scale ELSE -((-x) \div Scale)

\* what make([]time.Time, n) leaves in a slot: time.Time{}, the year 1, which
\* lies before every time of the model (its Unix() does not fit TLC's integers)
ZeroTime == -2147483647

\* the loop of GetData (595-600), from entry i with idx slots filled (both
\* counted from 0); a write past the end of the slices is a panic
RECURSIVE FillFrom(_, _, _, _, _, _)
FillFrom(r, entries, jobID, totalSize, i, idx) ==
    IF i >= totalSize
    THEN r
    ELSE IF idx >= Len(r.times)
         THEN [err |-> Panic, times |-> <<>>, values |-> <<>>]
         ELSE FillFrom([r EXCEPT !.times[idx + 1] = Int64(Lookup(entries[i + 1], "timestamp")),
                                 !.values[idx + 1] = Lookup(entries[i + 1], jobID)],
                       entries, jobID, totalSize, i + 1, idx + 1)

\* the window that starts at the first entry instead of at the offset
Window_FromStart(entries, jobID, MaxDataPoints) ==
    LET totalSize == Len(entries)
        size == IF MaxDataPoints < totalSize THEN MaxDataPoints ELSE totalSize
    IN IF totalSize = 0
       THEN [err |-> errNoDataFound, times |-> <<>>, values |-> <<>>]
       ELSE IF size < 0
            THEN [err |-> Panic, times |-> <<>>, values |-> <<>>]
            ELSE FillFrom([err |-> NoError,
                           times |-> [n \in 1 .. size |-> ZeroTime],
                           values |-> [n \in 1 .. size |-> 0]],
                          entries, jobID, size, 0, 0)

\* the window without the test for an empty answer
Window_NoEmptyTest(entries, jobID, MaxDataPoints) ==
    LET totalSize == Len(entries)
        offset == IF MaxDataPoints < totalSize THEN totalSize - MaxDataPoints ELSE 0
        size == IF MaxDataPoints < totalSize THEN MaxDataPoints ELSE totalSize
    IN IF size < 0
       THEN [err |-> Panic, times |-> <<>>, values |-> <<>>]
       ELSE FillFrom([err |-> NoError,
                      times |-> [n \in 1 .. size |-> ZeroTime],
                      values |-> [n \in 1 .. size |-> 0]],
                     entries, jobID, totalSize, offset, 0)

\* the window whose slices always have room for every entry
Window_FullSize(entries, jobID, MaxDataPoints) ==
    LET totalSize == Len(entries)
        offset == IF MaxDataPoints < totalSize THEN totalSize - MaxDataPoints ELSE 0
    IN IF totalSize = 0
       THEN [err |-> errNoDataFound, times |-> <<>>, values |-> <<>>]
       ELSE IF offset > totalSize
            THEN [err |-> Panic, times |-> <<>>, values |-> <<>>]
            ELSE FillFrom([err |-> NoError,
                           times |-> [n \in 1 .. totalSize |-> ZeroTime],
                           values |-> [n \in 1 .. totalSize |-> 0]],
                          entries, jobID, totalSize, offset, 0)

\* GetData from the decoded data on (579-602): the test for no data, the
\* offset, the two slices (make panics on a negative length) and the loop
Window(entries, jobID, MaxDataPoints) ==
    LET totalSize == Len(entries)
        offset == IF MaxDataPoints < totalSize THEN totalSize - MaxDataPoints ELSE 0
        size == IF MaxDataPoints < totalSize THEN MaxDataPoints ELSE totalSize
    IN IF totalSize = 0
       THEN [err |-> errNoDataFound, times |-> <<>>, values |-> <<>>]
       ELSE IF size < 0
            THEN [err |-> Panic, times |-> <<>>, values |-> <<>>]
            ELSE FillFrom([err |-> NoError,
                           times |-> [n \in 1 .. size |-> ZeroTime],
                           values |-> [n \in 1 .. size |-> 0]],
                          entries, jobID, totalSize, offset, 0)

\* GetData without the test for status 400
GetDataResult_No400(response, qm) ==
    IF response.isNil
    THEN [err |-> errTransport, times |-> <<>>, values |-> <<>>]
    ELSE IF response.body = "unreadable"
         THEN [err |-> errRead, times |-> <<>>, values |-> <<>>]
         ELSE IF response.body = "malformed"
              THEN [err |-> errUnmarshal, times |-> <<>>, values |-> <<>>]
              ELSE Window(response.entries, qm.JobID, qm.MaxDataPoints)

\* GetData from the answer of httpClient.Do on (561-602)
GetDataResult(response, qm) ==
    IF response.isNil
    THEN [err |-> errTransport, times |-> <<>>, values |-> <<>>]
    ELSE IF response.StatusCode = StatusBadRequest
         THEN [err |-> errDataRetrieval, times |-> <<>>, values |-> <<>>]
         ELSE IF response.body = "unreadable"
              THEN [err |-> errRead, times |-> <<>>, values |-> <<>>]
              ELSE IF response.body = "malformed"
                   THEN [err |-> errUnmarshal, times |-> <<>>, values |-> <<>>]
                   ELSE Window(response.entries, qm.JobID, qm.MaxDataPoints)

(***************************************************************************)
(* PulsarDatasource.query (plugin.go 405-464), between its calls of        *)
(* GetApps and GetData.                                                    *)
(***************************************************************************)
\* buildLabel(appName, jobName, qm)
buildLabel(appName, jobName, qm) ==
    <<appName, qm.AppID, jobName, qm.JobID, qm.MetricType, qm.Aggregation, qm.Geo, qm.ASN>>

\* query() after GetData has returned r (445-463); a panic ends the goroutine
QueryAfterData(f, r) ==
    IF r.err = Panic
    THEN [f EXCEPT !.pc = "panicked", !.ret.err = Panic]
    ELSE LET app == Lookup(f.appsResponse.AppsMap, f.qm.AppID)
             job == Lookup(f.appsResponse.JobsMap, f.qm.JobID)
             appName == IF f.qm.AppID \in DOMAIN f.appsResponse.AppsMap THEN app.Name ELSE ""
             jobName == IF f.qm.JobID \in DOMAIN f.appsResponse.JobsMap THEN job.Name ELSE ""
         IN Return(f, [NoResult EXCEPT !.err = r.err,
                                       !.times = r.times,
                                       !.values = r.values,
                                       !.apps = f.appsResponse,
                                       !.hasFrame = TRUE,
                                       !.label = buildLabel(appName, jobName, f.qm),
                                       !.meta = f.appsResponse.Apps])

\* query() that goes on after GetApps whether or not it returned an error
QueryAfterApps_IgnoresError(f, r) ==
    LET qm == [f.qm EXCEPT !.From = f.dq.From, !.To = f.dq.To,
                           !.MaxDataPoints = f.dq.MaxDataPoints]
        g == [f EXCEPT !.qm = qm, !.appsResponse = r.apps]
    IN IF canQuery(qm)
       THEN [g EXCEPT !.pc = "gac_lock", !.retTo = "data_request"]
       ELSE Return(g, [NoResult EXCEPT !.apps = r.apps,
                                       !.times = <<f.dq.From, f.dq.To>>,
                                       !.values = <<0, 0>>,
                                       !.hasFrame = TRUE,
                                       !.label = <<>>,
                                       !.meta = r.apps.Apps])

\* query() after GetApps has returned r (432-450)
QueryAfterApps(f, r) ==
    IF r.err # NoError
    THEN Return(f, [NoResult EXCEPT !.err = r.err, !.respError = r.err])
    ELSE LET qm == [f.qm EXCEPT !.From = f.dq.From, !.To = f.dq.To,
                                !.MaxDataPoints = f.dq.MaxDataPoints]
             g == [f EXCEPT !.qm = qm, !.appsResponse = r.apps]
         IN IF canQuery(qm)
            THEN [g EXCEPT !.pc = "gac_lock", !.retTo = "data_request"]
            ELSE Return(g, [NoResult EXCEPT !.apps = r.apps,
                                            !.times = <<f.dq.From, f.dq.To>>,
                                            !.values = <<0, 0>>,
                                            !.hasFrame = TRUE,
                                            !.label = <<>>,
                                            !.meta = r.apps.Apps])

\* GetData returns r to its caller; a panic ends the goroutine
DataReturn(f, r) ==
    IF f.op = "query"
    THEN QueryAfterData(f, r)
    ELSE IF r.err = Panic
         THEN [f EXCEPT !.pc = "panicked", !.ret.err = Panic]
         ELSE Return(f, [NoResult EXCEPT !.err = r.err, !.times = r.times, !.values = r.values])

\* GetApps returns r to its caller
AppsReturn(f, r) == IF f.op = "query" THEN QueryAfterApps(f, r) ELSE Return(f, r)

(***************************************************************************)
(* GetApps and GetJobs (ns1client.go 401-501).                             *)
(***************************************************************************)
ParamChoices == [FetchInactiveApps : BOOLEAN, FetchJobs : BOOLEAN, FetchInactiveJobs : BOOLEAN]

\* OptionAppFetchJobs(true), as query() calls GetApps; PulsarAppFetchInactive(true)
CacheParams == { [NoParams EXCEPT !.FetchJobs = TRUE], [NoParams EXCEPT !.FetchInactiveApps = TRUE] }

\* the zero values left in the slots of make([]App, n) and make([]Job, n)
ZeroApp == [AppID |-> "", Name |-> "", Jobs |-> <<>>]

ZeroJob == [JobID |-> "", Name |-> ""]

\* m[k] = v on a Go map
Put(m, k, v) == [x \in (DOMAIN m) \cup {k} |-> IF x = k THEN v ELSE m[x]]

\* the loop of GetJobs (488-498) over the listed jobs
BuildJobs(pjobs, parameters) ==
    [n \in 1 .. Len(pjobs) |->
        IF parameters.FetchInactiveJobs
        THEN ZeroJob
        ELSE [JobID |-> pjobs[n].JobID, Name |-> pjobs[n].Name]]

\* for _, j := range jobs { JobsMap[j.JobID] = j }, from the n-th job on
RECURSIVE PutJobs(_, _, _)
PutJobs(m, jobs, n) ==
    IF n > Len(jobs) THEN m ELSE PutJobs(Put(m, jobs[n].JobID, jobs[n]), jobs, n + 1)

\* the loop of GetApps (432-453) from application f.i on, up to the next call
\* of GetJobs or to the end of the list
RECURSIVE AppsLoop(_)
AppsLoop(f) ==
    IF f.i > Len(f.pulsarApps)
    THEN [f EXCEPT !.pc = "apps_install"]
    ELSE LET pulsarApp == f.pulsarApps[f.i]
             app == [AppID |-> pulsarApp.ID, Name |-> pulsarApp.Name, Jobs |-> <<>>]
             g == [f EXCEPT !.appsResponse.Apps[f.i] = app,
                            !.appsResponse.AppsMap = Put(@, pulsarApp.ID, app)]
         IN IF ~pulsarApp.Active /\ ~f.params.FetchInactiveApps
            THEN AppsLoop([f EXCEPT !.i = @ + 1])
            ELSE IF f.params.FetchJobs
                 THEN [g EXCEPT !.pc = "gac_lock", !.retTo = "jobs_list"]
                 ELSE AppsLoop([g EXCEPT !.i = @ + 1])

\* the entry of GetApps with a cache that counts only for a key that has its
\* client in the registry
GetAppsEnter_PerKey(f, t) ==
    IF ~data.isNil /\ ~isExpired(data, t) /\ apiClientCache[f.apiKey] # NoClient
    THEN [f EXCEPT !.pc = "apps_cached"]
    ELSE [f EXCEPT !.pc = "gac_lock", !.retTo = "apps_list"]

\* entry of GetApps (407-419): the test of the cache at time t, then either the
\* cached answer or the way to getAPIClient
GetAppsEnter(f, t) ==
    IF ~data.isNil /\ ~isExpired(data, t)
    THEN [f EXCEPT !.pc = "apps_cached"]
    ELSE [f EXCEPT !.pc = "gac_lock", !.retTo = "apps_list"]

\* GetApps(apiKey, params...), the key drawn from K and the parameters from P
GetApps_Call(t, K, P) ==
    /\ CanCall(t)
    /\ \E k \in K, p \in P :
         th' = [th EXCEPT ![t] =
                  GetAppsEnter([IdleFrame EXCEPT !.op = "GetApps", !.apiKey = k, !.params = p], now)]
    /\ calls' = calls + 1
    /\ UNCHANGED <<pulsarClient, apiClientCache, apiClientLock, clientSeq, data, now, clockSteps>>

\* the cached answer that also pushes the expiration of the snapshot forward
GetApps_Cached_Touch(t) ==
    /\ th[t].pc = "apps_cached"
    /\ th' = [th EXCEPT ![t] = AppsReturn(th[t], [NoResult EXCEPT !.apps = data.applications])]
    /\ data' = [data EXCEPT !.expiresOn = now + data.ttl + 1]
    /\ UNCHANGED <<pulsarClient, apiClientCache, apiClientLock, clientSeq, now, clockSteps, calls>>

\* return pc.data.getAppsResponse(), nil
GetApps_Cached(t) ==
    /\ th[t].pc = "apps_cached"
    /\ th' = [th EXCEPT ![t] = AppsReturn(th[t], [NoResult EXCEPT !.apps = data.applications])]
    /\ UNCHANGED <<pulsarClient, apiClientCache, apiClientLock, clientSeq, data, now, clockSteps, calls>>

\* a failed listing that also drops the cached data
GetApps_List_DropsCache(t, Lists) ==
    /\ th[t].pc = "apps_list"
    /\ LET f == [th[t] EXCEPT !.netCalls = @ + 1]
       IN \/ /\ th' = [th EXCEPT ![t] = AppsReturn(f, [NoResult EXCEPT !.err = errAPI])]
             /\ data' = NoData
          \/ /\ \E pulsarApps \in Lists :
                  th' = [th EXCEPT ![t] =
                           AppsLoop([f EXCEPT
                              !.pulsarApps = pulsarApps,
                              !.appsResponse =
                                  [isNil |-> FALSE,
                                   Apps |-> [n \in 1 .. Len(pulsarApps) |-> ZeroApp],
                                   AppsMap |-> EmptyMap,
                                   JobsMap |-> EmptyMap],
                              !.i = 1])]
             /\ data' = data
    /\ UNCHANGED <<pulsarClient, apiClientCache, apiClientLock, clientSeq, now, clockSteps, calls>>

\* pulsarApps, _, err = apiClient.Applications.List() (421-430), the answer drawn
\* from Lists, then the loop
GetApps_List(t, Lists) ==
    /\ th[t].pc = "apps_list"
    /\ LET f == [th[t] EXCEPT !.netCalls = @ + 1]
       IN \/ th' = [th EXCEPT ![t] = AppsReturn(f, [NoResult EXCEPT !.err = errAPI])]
          \/ \E pulsarApps \in Lists :
               th' = [th EXCEPT ![t] =
                        AppsLoop([f EXCEPT
                           !.pulsarApps = pulsarApps,
                           !.appsResponse =
                               [isNil |-> FALSE,
                                Apps |-> [n \in 1 .. Len(pulsarApps) |-> ZeroApp],
                                AppsMap |-> EmptyMap,
                                JobsMap |-> EmptyMap],
                           !.i = 1])]
    /\ UNCHANGED <<pulsarClient, apiClientCache, apiClientLock, clientSeq, data, now, clockSteps, calls>>

\* GetJobs_List that goes on with the next application when the listing of
\* jobs fails
GetJobs_List_SkipsFailed(t) ==
    /\ th[t].pc = "jobs_list"
    /\ LET f == [th[t] EXCEPT !.netCalls = @ + 1]
       IN \/ th' = [th EXCEPT ![t] = AppsLoop([f EXCEPT !.i = @ + 1])]
          \/ \E pjobs \in RemoteJobLists(f.pulsarApps[f.i].ID) :
               LET jobs == BuildJobs(pjobs, f.params)
               IN th' = [th EXCEPT ![t] =
                           AppsLoop([f EXCEPT
                              !.appsResponse.Apps[f.i].Jobs = jobs,
                              !.appsResponse.JobsMap = PutJobs(@, jobs, 1),
                              !.i = @ + 1])]
    /\ UNCHANGED <<pulsarClient, apiClientCache, apiClientLock, clientSeq, data, now, clockSteps, calls>>

\* GetJobs for application f.i: pjobs, _, err = apiClient.PulsarJobs.List(appID)
\* (478-500); back in GetApps, the jobs are stored (445-452) and the loop goes on
GetJobs_List(t) ==
    /\ th[t].pc = "jobs_list"
    /\ LET f == [th[t] EXCEPT !.netCalls = @ + 1]
       IN \/ th' = [th EXCEPT ![t] = AppsReturn(f, [NoResult EXCEPT !.err = errAPI])]
          \/ \E pjobs \in RemoteJobLists(f.pulsarApps[f.i].ID) :
               LET jobs == BuildJobs(pjobs, f.params)
               IN th' = [th EXCEPT ![t] =
                           AppsLoop([f EXCEPT
                              !.appsResponse.Apps[f.i].Jobs = jobs,
                              !.appsResponse.JobsMap = PutJobs(@, jobs, 1),
                              !.i = @ + 1])]
    /\ UNCHANGED <<pulsarClient, apiClientCache, apiClientLock, clientSeq, data, now, clockSteps, calls>>

\* pc.data = NewPulsarData(appsResponse, appsDefaultTTL); return appsResponse, nil
GetApps_Install(t) ==
    /\ th[t].pc = "apps_install"
    /\ data' = NewPulsarData(th[t].appsResponse, Seconds(appsDefaultTTL), now)
    /\ th' = [th EXCEPT ![t] = AppsReturn(th[t], [NoResult EXCEPT !.apps = th[t].appsResponse])]
    /\ UNCHANGED <<pulsarClient, apiClientCache, apiClientLock, clientSeq, now, clockSteps, calls>>

(***************************************************************************)
(* GetData and query as steps.                                             *)
(***************************************************************************)
\* the query models that query.JSON can unmarshal to
QueryModels ==
    [AppID : {"", "A1"}, JobID : {"", "J1"},
     MetricType : {"", "performance", "availability", "decisions"},
     Geo : {"", "*", "US_CA", "US\n"}, ASN : {"", "*", "15169"},
     Aggregation : {"", "p99"}, From : {0}, To : {0}, MaxDataPoints : {0}]

\* the time range and MaxDataPoints the host can hand to query()
DataQueries == [From : {Seconds(1000) + 1}, To : {Seconds(2000)}, MaxDataPoints : -1 .. MaxLen + 1]

\* QueryData makes the client when the datasource has none (381-383); then
\* query() up to its call of GetApps (417-431): the API key from the context,
\* the unmarshalling of the query, validate, then GetApps with
\* OptionAppFetchJobs(true)
query_Call(t) ==
    /\ CanCall(t)
    /\ \/ th' = [th EXCEPT ![t] =
                   Return([IdleFrame EXCEPT !.op = "query"],
                          [NoResult EXCEPT !.err = errAPIKeyNotFound,
                                           !.respError = errAPIKeyNotFound])]
       \/ th' = [th EXCEPT ![t] =
                   Return([IdleFrame EXCEPT !.op = "query", !.apiKey = "k1"],
                          [NoResult EXCEPT !.respError = errUnmarshal])]
       \/ \E json \in QueryModels, dq \in DataQueries :
            th' = [th EXCEPT ![t] =
                     GetAppsEnter([IdleFrame EXCEPT !.op = "query", !.apiKey = "k1",
                                                    !.params = [NoParams EXCEPT !.FetchJobs = TRUE],
                                                    !.json = json, !.qm = validate(json),
                                                    !.dq = dq],
                                  now)]
    /\ calls' = calls + 1
    /\ pulsarClient' = TRUE
    /\ UNCHANGED <<apiClientCache, apiClientLock, clientSeq, data, now, clockSteps>>

\* the query models buildURL is called with: validated, with a time range
BuildURLModels ==
    { validate([j EXCEPT !.From = a, !.To = b]) :
        j \in QueryModels, a \in {Seconds(1000), Seconds(1000) + 1}, b \in {Seconds(2000)} }

\* GetData(apiKey, query) called on its own, with an executable query
GetData_Call(t) ==
    /\ CanCall(t)
    /\ \E qm \in { q \in BuildURLModels : canQuery(q) /\ q.Geo = "*" /\ q.ASN = "*"
                                           /\ q.MetricType = "performance" /\ q.From = Seconds(1000) } :
         th' = [th EXCEPT ![t] = [IdleFrame EXCEPT !.pc = "gac_lock", !.op = "GetData",
                                                   !.apiKey = "k1", !.qm = qm,
                                                   !.retTo = "data_request"]]
    /\ calls' = calls + 1
    /\ UNCHANGED <<pulsarClient, apiClientCache, apiClientLock, clientSeq, data, now, clockSteps>>

\* GetData after getAPIClient (549-602): buildURL, the request, and what is
\* made of the answer, which is drawn from Responses; then the rest of query()
GetData_Do(t, Responses) ==
    /\ th[t].pc = "data_request"
    /\ LET f == th[t]
           b == buildURL(Endpoint, f.qm)
       IN IF b.err # NoError
          THEN th' = [th EXCEPT ![t] =
                        DataReturn(f, [err |-> b.err, times |-> <<>>, values |-> <<>>])]
          ELSE \E response \in Responses :
                 th' = [th EXCEPT ![t] =
                          DataReturn([f EXCEPT !.url = b.url, !.resp = response,
                                                   !.netCalls = @ + 1],
                                         GetDataResult(response, f.qm))]
    /\ UNCHANGED <<pulsarClient, apiClientCache, apiClientLock, clientSeq, data, now, clockSteps, calls>>

\* pc.buildURL(endpoint, qm) on its own
buildURL_Call(t) ==
    /\ CanCall(t)
    /\ \E qm \in BuildURLModels :
         LET b == buildURL(Endpoint, qm)
         IN th' = [th EXCEPT ![t] =
                     Return([IdleFrame EXCEPT !.op = "buildURL", !.qm = qm, !.url = b.url],
                            [NoResult EXCEPT !.err = b.err])]
    /\ calls' = calls + 1
    /\ UNCHANGED <<pulsarClient, apiClientCache, apiClientLock, clientSeq, data, now, clockSteps>>

(***************************************************************************)
(* ConvertDataPoints (unnamed/part_001 291-307): the points of one geo and *)
(* ASN of a DataPoints graph as a slice of times and a slice of values.    *)
(***************************************************************************)
\* DataPoint, [2]float64: the timestamp and the value
PointValues ==
    { <<100 * Scale, 1 * Scale>>, <<200 * Scale + 1, 2 * Scale + 1>>, <<300 * Scale, 0>> }

\* DataPointSlice of at most n points
RECURSIVE PointSeqsUpTo(_)
PointSeqsUpTo(n) ==
    IF n = 0
    THEN { <<>> }
    ELSE LET shorter == PointSeqsUpTo(n - 1)
         IN shorter \cup { Append(s, e) : s \in { x \in shorter : Len(x) = n - 1 }, e \in PointValues }

\* DataPoints: no graph, a geo without ASN, or a geo with the points of one ASN
DataPointsValues ==
    {NoDataPoints}
      \cup { [Graph |-> [g \in {"US_CA"} |-> EmptyMap]] }
      \cup { [Graph |-> [g \in {"US_CA"} |-> [a \in {"123"} |-> s]]] : s \in PointSeqsUpTo(MaxLen) }

\* ConvertDataPoints that takes the time from the value
ConvertDataPoints_ValueAsTime(geo, asn, dp) ==
    LET byASN == IF geo \in DOMAIN dp.Graph THEN dp.Graph[geo] ELSE EmptyMap
        points == IF asn \in DOMAIN byASN THEN byASN[asn] ELSE <<>>
    IN [times |-> [i \in 1 .. Len(points) |-> Int64(points[i][2])],
        values |-> [i \in 1 .. Len(points) |-> points[i][2]]]

\* ConvertDataPoints(geo, asn, dp): dp.Graph[geo][asn] of a missing key is a
\* nil slice; times[i] = time.Unix(int64(dataPoint[0]), 0), values[i] = dataPoint[1]
ConvertDataPoints(geo, asn, dp) ==
    LET byASN == IF geo \in DOMAIN dp.Graph THEN dp.Graph[geo] ELSE EmptyMap
        points == IF asn \in DOMAIN byASN THEN byASN[asn] ELSE <<>>
    IN [times |-> [i \in 1 .. Len(points) |-> Int64(points[i][1])],
        values |-> [i \in 1 .. Len(points) |-> points[i][2]]]

\* ConvertDataPoints(geo, asn, dp) called on its own
ConvertDataPoints_Call(t) ==
    /\ CanCall(t)
    /\ \E geo \in {"US_CA", "*"}, asn \in {"123", "*"}, dp \in DataPointsValues :
         LET r == ConvertDataPoints(geo, asn, dp)
         IN th' = [th EXCEPT ![t] =
                     Return([IdleFrame EXCEPT !.op = "ConvertDataPoints", !.qm.Geo = geo,
                                              !.qm.ASN = asn, !.dp = dp],
                            [NoResult EXCEPT !.times = r.times, !.values = r.values])]
    /\ calls' = calls + 1
    /\ UNCHANGED <<pulsarClient, apiClientCache, apiClientLock, clientSeq, data, now, clockSteps>>

(***************************************************************************)
(* The context of a query (plugin.go 405): query() receives it as _ and    *)
(* hands it to nothing, so its cancellation changes nothing but itself.    *)
(***************************************************************************)
\* the caller cancels the context of the running query, or its deadline passes
ctx_Cancel(t) ==
    /\ th[t].op = "query"
    /\ th[t].pc \notin {"idle", "done", "panicked"}
    /\ ~th[t].ctxDone
    /\ th' = [th EXCEPT ![t].ctxDone = TRUE]
    /\ UNCHANGED <<pulsarClient, apiClientCache, apiClientLock, clientSeq, data, now, clockSteps, calls>>

(***************************************************************************)
(* The wall clock.                                                         *)
(***************************************************************************)
\* half a second, or just short of the time to live of the cache
ClockJumps == {1, Seconds(appsDefaultTTL) - 1}

Tick ==
    /\ clockSteps < MaxClockSteps
    /\ \E d \in ClockJumps : now' = now + d
    /\ clockSteps' = clockSteps + 1
    /\ UNCHANGED <<pulsarClient, apiClientCache, apiClientLock, clientSeq, data, calls, th>>

(***************************************************************************)
(* Initial state: NewPulsarDatasource() (plugin.go 356-358), the datasource *)
(* without client, and NewPulsarClient() (ns1client.go 606-610), the       *)
(* client before its first call.                                           *)
(***************************************************************************)
Init ==
    /\ apiClientCache = [k \in Keys |-> NoClient]
    /\ apiClientLock = 0
    /\ clientSeq = 0
    /\ data = NoData
    /\ now = 0
    /\ clockSteps = 0
    /\ calls = 0
    /\ pulsarClient = FALSE
    /\ th = [t \in Threads |-> IdleFrame]

(***************************************************************************)
(* SpecResolve: concurrent getAPIClient calls only.                        *)
(***************************************************************************)
NextResolve ==
    \E t \in Threads :
        \/ getAPIClient_Call(t)
        \/ Idle(t)
        \/ getAPIClient_Lock(t)
        \/ getAPIClient_Unlock(t)

SpecResolve == Init /\ [][NextResolve]_vars

\* C3: after concurrent getAPIClient calls for a key, the registry holds one
\* client for the key, no other client was constructed for it, and every
\* completed call returned the registry's client.
C3_SingleHandle ==
    /\ \A t \in Threads :
         (th[t].pc = "done" /\ th[t].op = "getAPIClient")
            => /\ th[t].ret.client # NoClient
               /\ th[t].ret.client = apiClientCache[th[t].apiKey]
    /\ \A t1, t2 \in Threads :
         (/\ th[t1].pc = "done" /\ th[t1].op = "getAPIClient"
          /\ th[t2].pc = "done" /\ th[t2].op = "getAPIClient"
          /\ th[t1].apiKey = th[t2].apiKey)
            => th[t1].ret.client = th[t2].ret.client
    /\ clientSeq = Cardinality({k \in Keys : apiClientCache[k] # NoClient})

\* two calls for the same, previously unseen key completed with one client
C3_Witness ==
    \E t1, t2 \in Threads :
        /\ t1 # t2
        /\ th[t1].pc = "done" /\ th[t1].op = "getAPIClient"
        /\ th[t2].pc = "done" /\ th[t2].op = "getAPIClient"
        /\ th[t1].apiKey = th[t2].apiKey
        /\ th[t1].ret.client = th[t2].ret.client
        /\ th[t1].ret.client = apiClientCache[th[t1].apiKey]
        /\ clientSeq = 1

(***************************************************************************)
(* SpecRegistry: concurrent CheckAPIKey and getAPIClient calls on one      *)
(* PulsarClient.                                                           *)
(***************************************************************************)
NextRegistry ==
    \E t \in Threads :
        \/ CheckAPIKey_Call(t)
        \/ CheckAPIKey_Probe(t)
        \/ CheckAPIKey_Lock(t)
        \/ CheckAPIKey_Unlock(t)
        \/ getAPIClient_Call(t)
        \/ Idle(t)
        \/ getAPIClient_Lock(t)
        \/ getAPIClient_Unlock(t)

SpecRegistry == Init /\ [][NextRegistry]_vars

\* the step in which thread t receives the answer to its probe
ProbeAnswered(t) == th[t].pc = "cak_probe" /\ th'[t].pc # "cak_probe"

\* C6: when the probe of CheckAPIKey is answered with 401 or 403, the call
\* returns errAuthorizationDenied at once and the registry is left as it was.
C6_DeniedLeavesRegistry ==
    [][\A t \in Threads :
         (ProbeAnswered(t) /\ ~th'[t].resp.isNil
            /\ th'[t].resp.StatusCode \in {StatusUnauthorized, StatusForbidden})
           => /\ th'[t].pc = "done"
              /\ th'[t].ret.err = errAuthorizationDenied
              /\ apiClientCache' = apiClientCache]_vars

\* a probe was answered 403 for a key that already has a client in the registry
C6_Witness ==
    \E t \in Threads :
        /\ th[t].pc = "done" /\ th[t].op = "CheckAPIKey"
        /\ th[t].resp.StatusCode = StatusForbidden
        /\ th[t].ret.err = errAuthorizationDenied
        /\ apiClientCache[th[t].apiKey] # NoClient

\* C7: when CheckAPIKey returns nil the registry holds, for the key, the client
\* that was just probed, whatever it held before; and getAPIClient returns
\* what the registry holds for its key.
C7_ValidatedInstalled ==
    [][\A t \in Threads :
         /\ (th[t].pc = "cak_unlock" /\ th'[t].pc = "done")
              => /\ th'[t].ret.err = NoError
                 /\ th[t].client # NoClient
                 /\ th[t].client.apiKey = th[t].apiKey
                 /\ apiClientCache'[th[t].apiKey] = th[t].client
         /\ (th[t].pc = "gac_unlock" /\ th'[t].pc = "done")
              => th'[t].ret.client = apiClientCache'[th[t].apiKey]]_vars

\* CheckAPIKey has returned nil and the registry holds the newest client for
\* its key, in place of the older one that getAPIClient had handed out
C7_Witness ==
    \E t, u \in Threads :
        /\ th[t].pc = "done" /\ th[t].op = "CheckAPIKey" /\ th[t].ret.err = NoError
        /\ apiClientCache[th[t].apiKey].id = clientSeq
        /\ th[u].pc = "done" /\ th[u].op = "getAPIClient"
        /\ th[u].apiKey = th[t].apiKey
        /\ th[u].ret.client # NoClient
        /\ th[u].ret.client # apiClientCache[th[t].apiKey]

\* C8 (as claimed): a completed CheckAPIKey has returned errAuthorizationDenied
\* for a 401/403 answer, nil for any other answer, and a transient error, with
\* no client installed, when the probe got no answer at all.
C8_ThreeWayClassification ==
    \A t \in Threads :
        (th[t].pc = "done" /\ th[t].op = "CheckAPIKey")
          => /\ IsDenied(th[t].resp) => th[t].ret.err = errAuthorizationDenied
             /\ (~th[t].resp.isNil /\ ~IsDenied(th[t].resp)) => th[t].ret.err = NoError
             /\ th[t].resp.isNil => th[t].ret.err = errTransport

(***************************************************************************)
(* SpecCache: concurrent GetApps calls on one PulsarClient, and the clock. *)
(***************************************************************************)
NextCache ==
    \/ Tick
    \/ \E t \in Threads :
        \/ GetApps_Call(t, {"k1"}, CacheParams)
        \/ Idle(t)
        \/ GetApps_Cached(t)
        \/ getAPIClient_Lock(t)
        \/ getAPIClient_Unlock(t)
        \/ GetApps_List(t, CacheAppLists)
        \/ GetJobs_List(t)
        \/ GetApps_Install(t)

SpecCache == Init /\ [][NextCache]_vars

\* the step in which thread t calls GetApps (and tests the cache)
GetAppsIssued(t) ==
    /\ th[t].pc = "idle"
    /\ th'[t].op = "GetApps"
    /\ th'[t].pc # "idle"

\* the step in which thread t answers from the cache
GetAppsAnswersCached(t) == th[t].pc = "apps_cached" /\ th'[t].pc # "apps_cached"

\* the step in which a GetApps call of thread t returns an error
GetAppsFailed(t) ==
    /\ th[t].op = "GetApps" /\ th[t].pc # "done"
    /\ th'[t].pc = "done" /\ th'[t].ret.err # NoError

\* C4 (as claimed): a GetApps call issued while a snapshot exists and
\* now < expiresOn answers from the cache, with no network call.
C4_NoFetchBeforeExpiry ==
    [][\A t \in Threads :
         (GetAppsIssued(t) /\ ~data.isNil /\ now < data.expiresOn)
           => (th'[t].pc = "apps_cached" /\ th'[t].netCalls = 0)]_vars

\* C4 (amended): a GetApps call issued while a snapshot exists and the clock's
\* Unix second is before the Unix second of expiresOn answers from the cache:
\* it makes no network call, leaves the cache as it is and returns the
\* applications of the snapshot that is installed when it returns.
C4_NoFetchBeforeExpirySecond ==
    [][\A t \in Threads :
         /\ (GetAppsIssued(t) /\ ~data.isNil /\ Unix(now) < Unix(data.expiresOn))
              => (th'[t].pc = "apps_cached" /\ th'[t].netCalls = 0)
         /\ GetAppsAnswersCached(t)
              => /\ th'[t].pc = "done"
                 /\ th'[t].netCalls = 0
                 /\ th'[t].ret.err = NoError
                 /\ ~data.isNil
                 /\ th'[t].ret.apps = data.applications
                 /\ data' = data]_vars

\* a call was answered from the cache, with no network call, after the clock
\* had moved
C4_Witness ==
    \E t \in Threads :
        /\ th[t].pc = "done" /\ th[t].op = "GetApps"
        /\ th[t].netCalls = 0
        /\ th[t].ret.err = NoError
        /\ ~data.isNil /\ th[t].ret.apps = data.applications
        /\ now > 0 /\ now < data.expiresOn

\* C5: a GetApps call that returns an error returns no applications and leaves
\* the cached snapshot as it is; the snapshot changes only in the step in
\* which a GetApps call returns successfully the applications it installs.
C5_FailedRefreshKeepsSnapshot ==
    [][/\ \A t \in Threads :
            GetAppsFailed(t) => (data' = data /\ th'[t].ret.apps = NilAppsResponse)
       /\ (data' # data)
            => \E t \in Threads :
                 /\ th[t].pc = "apps_install" /\ th'[t].pc = "done"
                 /\ th'[t].ret.err = NoError
                 /\ ~data'.isNil
                 /\ data'.applications = th'[t].ret.apps]_vars

\* the refresh of an expired snapshot has failed and the snapshot is still there
C5_Witness ==
    \E t \in Threads :
        /\ th[t].pc = "done" /\ th[t].op = "GetApps"
        /\ th[t].ret.err # NoError
        /\ ~data.isNil
        /\ isExpired(data, now)

\* C18: the cached snapshot changes only in the step in which GetApps installs
\* the snapshot it has just built, and that snapshot has the time to live of
\* 600 seconds and expires that long after the time of the step; in no other
\* step does a field of the snapshot change.
C18_SnapshotNeverMutated ==
    [][(data' # data)
         => /\ ~data'.isNil
            /\ data'.ttl = 600 * TicksPerSecond
            /\ data'.expiresOn = now + data'.ttl
            /\ \E t \in Threads :
                  /\ th[t].pc = "apps_install" /\ th'[t].pc # "apps_install"
                  /\ data'.applications = th[t].appsResponse]_vars

\* two calls have each installed a snapshot, the one in the cache was
\* installed after the clock had moved
C18_Witness ==
    \E t, u \in Threads :
        /\ t # u
        /\ th[t].pc = "done" /\ th[t].op = "GetApps" /\ th[t].ret.err = NoError /\ th[t].netCalls > 0
        /\ th[u].pc = "done" /\ th[u].op = "GetApps" /\ th[u].ret.err = NoError /\ th[u].netCalls > 0
        /\ ~data.isNil
        /\ data.expiresOn > Seconds(appsDefaultTTL)
        /\ data.expiresOn <= now + data.ttl

\* thread t is in the part of GetApps that fetches and installs
Refreshing(t) ==
    /\ th[t].op = "GetApps"
    /\ \/ th[t].pc \in {"apps_list", "jobs_list", "apps_install"}
       \/ th[t].pc \in {"gac_lock", "gac_unlock"} /\ th[t].retTo \in {"apps_list", "jobs_list"}

\* C24 (as claimed): at most one GetApps call is fetching or installing at
\* any time.
C24_SingleRefresh == Cardinality({ t \in Threads : Refreshing(t) }) <= 1

\* the locks thread t holds; PulsarClient has one, apiClientLock
HeldLocks(t) == IF apiClientLock = t THEN {"apiClientLock"} ELSE {}

\* thread t is about to write the registry map
RegistryWrite(t) == th[t].pc \in {"gac_unlock", "cak_unlock"}

\* thread t is about to write pc.data (456)
SnapshotWrite(t) == th[t].pc = "apps_install"

\* thread t is about to read pc.data (408) or to write it
SnapshotAccess(t) == th[t].pc \in {"apps_cached", "apps_install"}

\* C25 (as claimed): a call that is about to write the registry map holds
\* its lock, and whenever one call is about to write the snapshot pointer
\* while another is about to read or write it, both hold a lock.
C25_SharedStateUnderLock ==
    \A t, u \in Threads :
        /\ RegistryWrite(t) => HeldLocks(t) # {}
        /\ (t # u /\ SnapshotWrite(t) /\ SnapshotAccess(u))
             => (HeldLocks(t) # {} /\ HeldLocks(u) # {})

\* C26: a GetApps call issued when there is no snapshot, or at or after the
\* expiration of the snapshot, goes to the fetch; when the fetch succeeds the
\* snapshot built from it, expiring 600 s later, is installed and its
\* applications are returned.  A call that answers from the cache was issued
\* before the expiration of the snapshot it tested, answers with the snapshot
\* in the cache, and a snapshot that replaces another never expires earlier.
C26_ExpiredIsRefetched ==
    [][\A t \in Threads :
         /\ (GetAppsIssued(t) /\ (data.isNil \/ now >= data.expiresOn))
              => (th'[t].pc = "gac_lock" /\ th'[t].retTo = "apps_list")
         /\ (GetAppsIssued(t) /\ th'[t].pc = "apps_cached")
              => (~data.isNil /\ now < data.expiresOn)
         /\ (th[t].op = "GetApps" /\ th[t].pc = "apps_install" /\ th'[t] # th[t])
              => /\ th'[t].pc = "done"
                 /\ th'[t].ret.err = NoError
                 /\ ~data'.isNil
                 /\ data'.applications = th[t].appsResponse
                 /\ data'.expiresOn = now + 600 * TicksPerSecond
                 /\ th'[t].ret.apps = data'.applications
         /\ (th[t].pc = "apps_cached" /\ ~data.isNil)
              => (~data'.isNil /\ data'.expiresOn >= data.expiresOn)
         /\ GetAppsAnswersCached(t)
              => (~data.isNil /\ th'[t].ret.apps = data.applications)]_vars

\* a call issued at the very second in which the snapshot expired has fetched
\* and installed a new one
C26_Witness ==
    \E t, u \in Threads :
        /\ t # u
        /\ th[u].pc = "done" /\ th[u].op = "GetApps" /\ th[u].ret.err = NoError
        /\ th[t].pc = "done" /\ th[t].op = "GetApps" /\ th[t].ret.err = NoError
        /\ th[t].netCalls > 0
        /\ now = Seconds(appsDefaultTTL)
        /\ ~data.isNil
        /\ data.expiresOn = now + Seconds(appsDefaultTTL)
        /\ th[t].ret.apps = data.applications

(***************************************************************************)
(* SpecQuery: one goroutine handling queries, one after the other.         *)
(***************************************************************************)
NextQuery ==
    \E t \in {1} :
        \/ query_Call(t)
        \/ Idle(t)
        \/ GetApps_Cached(t)
        \/ getAPIClient_Lock(t)
        \/ getAPIClient_Unlock(t)
        \/ GetApps_List(t, CacheAppLists)
        \/ GetJobs_List(t)
        \/ GetApps_Install(t)
        \/ GetData_Do(t, DataResponses)

SpecQuery == Init /\ [][NextQuery]_vars

\* thread t holds what GetData has returned
GetDataReturned(t) == th[t].op = "query" /\ th[t].pc = "done" /\ th[t].url # NoURL

\* the answer was decoded: it is not a 400, it could be read and it is a JSON
\* array of objects of numbers
Decoded(response) ==
    ~response.isNil /\ response.StatusCode # StatusBadRequest /\ response.body = "array"

Min(a, b) == IF a < b THEN a ELSE b

\* C1: for a decoded answer of total > 0 entries and MaxDataPoints > 0, GetData
\* returns the last min(total, MaxDataPoints) entries in their order: the whole
\* seconds of "timestamp" as times, the number under the job ID as values.
C1_WindowIsTail ==
    \A t \in Threads :
        (/\ GetDataReturned(t)
         /\ Decoded(th[t].resp)
         /\ Len(th[t].resp.entries) > 0
         /\ th[t].qm.MaxDataPoints > 0)
          => LET entries == th[t].resp.entries
                 total == Len(entries)
                 kept == Min(total, th[t].qm.MaxDataPoints)
                 tail == SubSeq(entries, total - kept + 1, total)
             IN /\ th[t].ret.err = NoError
                /\ Len(th[t].ret.times) = kept
                /\ Len(th[t].ret.values) = kept
                /\ \A n \in 1 .. kept :
                      /\ th[t].ret.times[n] = Int64(Lookup(tail[n], "timestamp"))
                      /\ th[t].ret.values[n] = Lookup(tail[n], th[t].qm.JobID)

\* three entries were decoded, MaxDataPoints is 2, and the last two came back
C1_Witness ==
    \E t \in Threads :
        /\ GetDataReturned(t)
        /\ Decoded(th[t].resp)
        /\ Len(th[t].resp.entries) = 3
        /\ th[t].resp.entries[1] # th[t].resp.entries[2]
        /\ th[t].resp.entries[2] # th[t].resp.entries[3]
        /\ th[t].qm.MaxDataPoints = 2
        /\ th[t].ret.err = NoError
        /\ th[t].ret.times = <<Int64(th[t].resp.entries[2].timestamp),
                                Int64(th[t].resp.entries[3].timestamp)>>

\* C2: for a decoded answer of no entries GetData returns errNoDataFound and
\* no points, whatever MaxDataPoints is.
C2_EmptyIsNoDataFound ==
    \A t \in Threads :
        (GetDataReturned(t) /\ Decoded(th[t].resp) /\ Len(th[t].resp.entries) = 0)
          => /\ th[t].ret.err = errNoDataFound
             /\ th[t].ret.times = <<>>
             /\ th[t].ret.values = <<>>

\* an empty answer came back as errNoDataFound with MaxDataPoints = 0
C2_Witness ==
    \E t \in Threads :
        /\ GetDataReturned(t)
        /\ Decoded(th[t].resp)
        /\ th[t].resp.entries = <<>>
        /\ th[t].qm.MaxDataPoints = 0
        /\ th[t].ret.err = errNoDataFound

\* the values of the pieces of the URL's query that are called name
ValuesOf(url, name) ==
    { url.query[n].value : n \in { m \in 1 .. Len(url.query) : url.query[m].name = name } }

\* how many pieces of the URL's query are called name
CountOf(url, name) == Cardinality({ m \in 1 .. Len(url.query) : url.query[m].name = name })

\* C9: the URL built for a query has exactly one area piece: area=GLOBAL when
\* the query's geo is empty or "*", area=<geo> otherwise.
C9_AreaGlobalOrGeo ==
    \A t \in Threads :
        (th[t].op = "query" /\ th[t].url # NoURL)
          => /\ CountOf(th[t].url, "area") = 1
             /\ ValuesOf(th[t].url, "area") =
                   IF th[t].json.Geo \in {"", "*"} THEN {"GLOBAL"} ELSE {th[t].json.Geo}

\* a URL was built with area=GLOBAL for a query without geo
C9_Witness ==
    \E t \in Threads :
        /\ th[t].op = "query" /\ th[t].url # NoURL
        /\ th[t].json.Geo = ""
        /\ ValuesOf(th[t].url, "area") = {"GLOBAL"}

\* C10: the URL built for a query has an asn piece, asn=<asn>, exactly when
\* the query's asn is neither empty nor "*".
C10_AsnOnlyIfGiven ==
    \A t \in Threads :
        (th[t].op = "query" /\ th[t].url # NoURL)
          => IF th[t].json.ASN \in {"", "*"}
             THEN CountOf(th[t].url, "asn") = 0
             ELSE /\ CountOf(th[t].url, "asn") = 1
                  /\ ValuesOf(th[t].url, "asn") = {th[t].json.ASN}

\* a URL was built without asn for a query whose asn is empty
C10_Witness ==
    \E t \in Threads :
        /\ th[t].op = "query" /\ th[t].url # NoURL
        /\ th[t].json.ASN = ""
        /\ CountOf(th[t].url, "asn") = 0
        /\ CountOf(th[t].url, "area") = 1

\* C12: when the answer to the request has status 400, GetData returns
\* errDataRetrieval and no points, whatever the body and MaxDataPoints are.
C12_BadRequestIsDataRetrieval ==
    \A t \in Threads :
        (GetDataReturned(t) /\ ~th[t].resp.isNil /\ th[t].resp.StatusCode = StatusBadRequest)
          => /\ th[t].ret.err = errDataRetrieval
             /\ th[t].ret.times = <<>>
             /\ th[t].ret.values = <<>>

\* a 400 answer whose body is an array of three entries, asked for with
\* MaxDataPoints 2, came back as errDataRetrieval
C12_Witness ==
    \E t \in Threads :
        /\ GetDataReturned(t)
        /\ ~th[t].resp.isNil /\ th[t].resp.StatusCode = StatusBadRequest
        /\ th[t].resp.body = "array" /\ Len(th[t].resp.entries) = 3
        /\ th[t].qm.MaxDataPoints = 2
        /\ th[t].ret.err = errDataRetrieval

\* the answer is no answer at all, or has a status outside 2xx other than 400
FailedOtherThan400(response) ==
    \/ response.isNil
    \/ /\ ~(200 <= response.StatusCode /\ response.StatusCode < 300)
       /\ response.StatusCode # StatusBadRequest

\* C13 (as claimed): when the request fails at the transport level or is
\* answered with a status outside 2xx other than 400, GetData returns an error
\* that is not errNoDataFound, and no points.
C13_NonOKIsFetchError ==
    \A t \in Threads :
        (GetDataReturned(t) /\ FailedOtherThan400(th[t].resp))
          => /\ th[t].ret.err \notin {NoError, errNoDataFound}
             /\ th[t].ret.times = <<>>
             /\ th[t].ret.values = <<>>

\* all four of appid, jobid, metricType and agg are given
AllGiven(q) == q.AppID # "" /\ q.JobID # "" /\ q.MetricType # "" /\ q.Aggregation # ""

\* the step in which GetApps returns its applications to query()
QueryGotApps(t) == th[t].op = "query" /\ th[t].pc \in {"apps_cached", "apps_install"}

\* C14: query() goes on to GetData only when appid, jobid, metricType and agg
\* are all given; when one of them is empty it makes no request and returns,
\* without error, a frame with the two ends of the time range as times, two
\* zeros as values and the applications as metadata.
C14_IncompleteQueryIsPreview ==
    [][\A t \in Threads :
         /\ (th'[t].retTo = "data_request" /\ th[t].retTo # "data_request")
              => AllGiven(th'[t].json)
         /\ th'[t].pc = "data_request" => AllGiven(th'[t].json)
         /\ (QueryGotApps(t) /\ ~AllGiven(th[t].json))
              => /\ th'[t].pc = "done"
                 /\ th'[t].url = NoURL
                 /\ th'[t].netCalls = th[t].netCalls
                 /\ th'[t].ret.respError = NoError
                 /\ th'[t].ret.hasFrame
                 /\ th'[t].ret.times = <<th[t].dq.From, th[t].dq.To>>
                 /\ th'[t].ret.values = <<0, 0>>
                 /\ th'[t].ret.apps # NilAppsResponse
                 /\ th'[t].ret.meta = th'[t].ret.apps.Apps]_vars

\* a query with everything but the aggregation came back as a frame, with no
\* request made for data
C14_Witness ==
    \E t \in Threads :
        /\ th[t].op = "query" /\ th[t].pc = "done"
        /\ th[t].json.AppID = "A1" /\ th[t].json.JobID = "J1"
        /\ th[t].json.MetricType = "performance" /\ th[t].json.Aggregation = ""
        /\ th[t].ret.hasFrame
        /\ th[t].url = NoURL
        /\ th[t].ret.times = <<Seconds(1000) + 1, Seconds(2000)>>
        /\ Len(th[t].ret.meta) > 0

\* query() has called GetData for an executable query and GetData has
\* returned an error
FetchFailed(t) ==
    /\ th[t].op = "query" /\ th[t].pc = "done"
    /\ th[t].ret.apps # NilAppsResponse
    /\ AllGiven(th[t].qm)
    /\ th[t].ret.err # NoError

\* C19 (as claimed): when GetData fails for an executable query, the
\* DataResponse of the query carries that error and no frame.
C19_FetchFailureReported ==
    \A t \in Threads :
        FetchFailed(t) => (th[t].ret.respError = th[t].ret.err /\ ~th[t].ret.hasFrame)

\* C20: when GetData returns without error and MaxDataPoints >= 0, times and
\* values have the same length, min(total, MaxDataPoints), and every slot
\* holds the whole seconds and the value of one decoded entry.
C20_AxesParallel ==
    \A t \in Threads :
        (GetDataReturned(t) /\ th[t].ret.err = NoError /\ th[t].qm.MaxDataPoints >= 0)
          => LET entries == th[t].resp.entries
                 total == Len(entries)
             IN /\ Len(th[t].ret.times) = Len(th[t].ret.values)
                /\ Len(th[t].ret.times) = Min(total, th[t].qm.MaxDataPoints)
                /\ \A n \in 1 .. Len(th[t].ret.times) :
                      \E m \in 1 .. total :
                          /\ th[t].ret.times[n] = Int64(Lookup(entries[m], "timestamp"))
                          /\ th[t].ret.values[n] = Lookup(entries[m], th[t].qm.JobID)

\* an answer of two entries, asked for with MaxDataPoints 0, came back as two
\* empty axes and no error
C20_Witness ==
    \E t \in Threads :
        /\ GetDataReturned(t)
        /\ Decoded(th[t].resp)
        /\ Len(th[t].resp.entries) = 2
        /\ th[t].qm.MaxDataPoints = 0
        /\ th[t].ret.err = NoError
        /\ th[t].ret.times = <<>> /\ th[t].ret.values = <<>>

\* thread t is inside the GetApps call of its query
InMetadata(t) ==
    \/ th[t].pc \in {"apps_cached", "apps_list", "jobs_list", "apps_install"}
    \/ th[t].pc \in {"gac_lock", "gac_unlock"} /\ th[t].retTo \in {"apps_list", "jobs_list"}

\* C22: in a query, GetData starts only in the step in which GetApps returns
\* its applications: as long as GetApps runs, no request for data has been
\* made; and when GetApps returns an error the query returns that error, with
\* no frame and without a request for data.
C22_MetadataBeforeData ==
    [][\A t \in Threads :
         th[t].op = "query"
           => /\ InMetadata(t) => (th[t].url = NoURL /\ th[t].resp.isNil)
              /\ (th'[t].retTo = "data_request" /\ th[t].retTo # "data_request")
                   => (QueryGotApps(t) /\ ~th'[t].appsResponse.isNil)
              /\ th'[t].pc = "data_request" => ~th'[t].appsResponse.isNil
              /\ (th[t].pc \in {"apps_list", "jobs_list"} /\ ~InMetadata(t)')
                   => /\ th'[t].pc = "done"
                      /\ th'[t].ret.respError = errAPI
                      /\ ~th'[t].ret.hasFrame
                      /\ th'[t].url = NoURL
                      /\ th'[t].resp.isNil]_vars

\* an executable query whose listing of jobs failed came back with the error
\* and no request for data
C22_Witness ==
    \E t \in Threads :
        /\ th[t].op = "query" /\ th[t].pc = "done"
        /\ AllGiven(th[t].json)
        /\ th[t].netCalls = 2
        /\ th[t].ret.respError = errAPI
        /\ th[t].url = NoURL

(***************************************************************************)
(* SpecBuildURL: buildURL applied to validated query models.               *)
(***************************************************************************)
NextBuildURL ==
    \E t \in {1} :
        \/ buildURL_Call(t)
        \/ Idle(t)

SpecBuildURL == Init /\ [][NextBuildURL]_vars

\* a call of buildURL has returned a URL
URLBuilt(t) == th[t].op = "buildURL" /\ th[t].pc = "done" /\ th[t].url # NoURL

\* C11: the path of the built URL ends in query/performance/time for the
\* metric type "performance" and in query/availability/time for any other;
\* its query starts with start=<whole seconds of From>, end=<whole seconds
\* of To>, jobs=<JobID>, in this order, and the fourth piece is agg=<Aggregation>
\* exactly when the aggregation is not empty (there is no other agg piece).
C11_PathAndLeadingParams ==
    \A t \in Threads :
        URLBuilt(t)
          => LET url == th[t].url
                 qm == th[t].qm
             IN /\ url.path[Len(url.path)] =
                      IF qm.MetricType = "performance"
                      THEN "pulsar/query/performance/time"
                      ELSE "pulsar/query/availability/time"
                /\ Len(url.query) >= 3
                /\ url.query[1] = Param("start", ToString(qm.From \div TicksPerSecond))
                /\ url.query[2] = Param("end", ToString(qm.To \div TicksPerSecond))
                /\ url.query[3] = Param("jobs", qm.JobID)
                /\ IF qm.Aggregation # ""
                   THEN /\ Len(url.query) >= 4
                        /\ url.query[4] = Param("agg", qm.Aggregation)
                        /\ CountOf(url, "agg") = 1
                   ELSE CountOf(url, "agg") = 0

\* a URL was built for a metric type other than performance and availability,
\* with no aggregation, from a From that is not a whole second
C11_Witness ==
    \E t \in Threads :
        /\ URLBuilt(t)
        /\ th[t].qm.MetricType = "decisions"
        /\ th[t].qm.Aggregation = ""
        /\ th[t].qm.From = Seconds(1000) + 1
        /\ th[t].url.path[2] = "pulsar/query/availability/time"
        /\ th[t].url.query[1].value = "1000"
        /\ CountOf(th[t].url, "agg") = 0

(***************************************************************************)
(* SpecMeta: GetApps calls, one after the other, with every choice of      *)
(* parameters, and the clock.                                              *)
(***************************************************************************)
NextMeta ==
    \/ Tick
    \/ \E t \in {1} :
        \/ GetApps_Call(t, {"k1"}, ParamChoices)
        \/ Idle(t)
        \/ GetApps_Cached(t)
        \/ getAPIClient_Lock(t)
        \/ getAPIClient_Unlock(t)
        \/ GetApps_List(t, RemoteAppLists)
        \/ GetJobs_List(t)
        \/ GetApps_Install(t)

SpecMeta == Init /\ [][NextMeta]_vars

\* the step in which GetApps of thread t returns the applications it fetched
GetAppsFetched(t) ==
    th[t].op = "GetApps" /\ th[t].pc = "apps_install" /\ th'[t].pc = "done"

\* the listed applications that GetApps is asked for
WantedApps(pulsarApps, parameters) ==
    LET Keep(a) == a.Active \/ parameters.FetchInactiveApps
    IN SelectSeq(pulsarApps, Keep)

\* the listed jobs that GetJobs is asked for
WantedJobs(pjobs, parameters) ==
    LET Keep(j) == j.Active \/ parameters.FetchInactiveJobs
    IN SelectSeq(pjobs, Keep)

\* the jobs the remote API lists for an application
ListedJobs(appID) == CHOOSE pjobs \in RemoteJobLists(appID) : TRUE

\* C15 (as claimed): the applications GetApps returns after a fetch are the
\* listed applications that are active, or all of them with FetchInactiveApps,
\* one entry each in the order of the listing, and AppsMap has exactly their
\* IDs as keys.
C15_OnlyWantedApps ==
    [][\A t \in Threads :
         GetAppsFetched(t)
           => LET wanted == WantedApps(th[t].pulsarApps, th[t].params)
                  got == th'[t].ret.apps
              IN /\ Len(got.Apps) = Len(wanted)
                 /\ \A n \in 1 .. Len(wanted) :
                       n <= Len(got.Apps)
                         => (got.Apps[n].AppID = wanted[n].ID /\ got.Apps[n].Name = wanted[n].Name)
                 /\ DOMAIN got.AppsMap = { wanted[n].ID : n \in 1 .. Len(wanted) }]_vars

\* C16 (as claimed): with FetchJobs, the jobs GetApps returns for an
\* application it includes are the listed jobs that are active, or all of them
\* with FetchInactiveJobs, and JobsMap has exactly the IDs of the returned
\* jobs as keys.
C16_OnlyWantedJobs ==
    [][\A t \in Threads :
         (GetAppsFetched(t) /\ th[t].params.FetchJobs)
           => LET listed == th[t].pulsarApps
                  got == th'[t].ret.apps
                  included == { n \in 1 .. Len(listed) :
                                  listed[n].Active \/ th[t].params.FetchInactiveApps }
                  JobsOf(n) == WantedJobs(ListedJobs(listed[n].ID), th[t].params)
              IN /\ \A n \in included :
                       \E m \in 1 .. Len(got.Apps) :
                           /\ got.Apps[m].AppID = listed[n].ID
                           /\ Len(got.Apps[m].Jobs) = Len(JobsOf(n))
                           /\ \A k \in 1 .. Len(JobsOf(n)) :
                                 k <= Len(got.Apps[m].Jobs)
                                   => /\ got.Apps[m].Jobs[k].JobID = JobsOf(n)[k].JobID
                                      /\ got.Apps[m].Jobs[k].Name = JobsOf(n)[k].Name
                 /\ DOMAIN got.JobsMap =
                       UNION { { JobsOf(n)[k].JobID : k \in 1 .. Len(JobsOf(n)) } : n \in included }]_vars

\* application n of the listing is one GetApps includes
Included(f, n) == f.pulsarApps[n].Active \/ f.params.FetchInactiveApps

\* C17: a GetApps call in which the listing of the applications, or of the
\* jobs of one application, fails returns the error and no applications and
\* installs nothing; a snapshot is installed only by a call that has gone
\* through the whole listing, with one successful listing of jobs for every
\* application it includes when it fetches jobs.
C17_AllOrNothing ==
    [][/\ \A t \in Threads :
            (th[t].pc \in {"apps_list", "jobs_list"} /\ th'[t].pc = "done")
              => /\ th'[t].ret.err # NoError
                 /\ th'[t].ret.apps = NilAppsResponse
                 /\ data' = data
       /\ (data' # data)
            => \E t \in Threads :
                 LET f == th[t]
                     all == 1 .. Len(f.pulsarApps)
                     included == { n \in all : Included(f, n) }
                 IN /\ f.pc = "apps_install"
                    /\ f.i = Len(f.pulsarApps) + 1
                    /\ data'.applications = f.appsResponse
                    /\ Len(f.appsResponse.Apps) = Len(f.pulsarApps)
                    /\ \A n \in included :
                          /\ f.appsResponse.Apps[n].AppID = f.pulsarApps[n].ID
                          /\ f.pulsarApps[n].ID \in DOMAIN f.appsResponse.AppsMap
                          /\ f.params.FetchJobs
                               => Len(f.appsResponse.Apps[n].Jobs)
                                     = Len(ListedJobs(f.pulsarApps[n].ID))
                    /\ f.netCalls = 1 + (IF f.params.FetchJobs THEN Cardinality(included) ELSE 0)]_vars

\* the listing of the jobs of the second application has failed, after the
\* jobs of the first were fetched: the call returned the error and nothing
\* was installed
C17_Witness ==
    \E t \in Threads :
        /\ th[t].pc = "done" /\ th[t].op = "GetApps"
        /\ th[t].netCalls = 3
        /\ th[t].ret.err = errAPI
        /\ th[t].ret.apps = NilAppsResponse
        /\ data.isNil

(***************************************************************************)
(* SpecConvert: ConvertDataPoints applied to graphs, geos and ASNs.        *)
(***************************************************************************)
NextConvert ==
    \E t \in {1} :
        \/ ConvertDataPoints_Call(t)
        \/ Idle(t)

SpecConvert == Init /\ [][NextConvert]_vars

\* a call of ConvertDataPoints has returned
Converted(t) == th[t].op = "ConvertDataPoints" /\ th[t].pc = "done"

\* the points the graph holds for the geo and the ASN, none when one is absent
PointsOf(dp, geo, asn) ==
    IF geo \in DOMAIN dp.Graph
    THEN IF asn \in DOMAIN dp.Graph[geo] THEN dp.Graph[geo][asn] ELSE <<>>
    ELSE <<>>

\* C21: ConvertDataPoints returns as many times and as many values as the
\* graph holds points for the geo and the ASN; the i-th time is the whole
\* seconds of the first component of the i-th point and the i-th value is its
\* second component; for an absent geo or ASN both slices are empty.
C21_ConvertKeepsPoints ==
    \A t \in Threads :
        Converted(t)
          => LET points == PointsOf(th[t].dp, th[t].qm.Geo, th[t].qm.ASN)
             IN /\ Len(th[t].ret.times) = Len(points)
                /\ Len(th[t].ret.values) = Len(points)
                /\ \A i \in 1 .. Len(points) :
                      /\ th[t].ret.times[i] * Scale <= points[i][1]
                      /\ points[i][1] < (th[t].ret.times[i] + 1) * Scale
                      /\ th[t].ret.values[i] = points[i][2]

\* three points were converted, the second with a timestamp that is not a
\* whole second
C21_Witness ==
    \E t \in Threads :
        /\ Converted(t)
        /\ th[t].qm.Geo = "US_CA" /\ th[t].qm.ASN = "123"
        /\ PointsOf(th[t].dp, "US_CA", "123") =
              << <<100 * Scale, 1 * Scale>>, <<200 * Scale + 1, 2 * Scale + 1>>, <<300 * Scale, 0>> >>
        /\ th[t].ret.times = <<100, 200, 300>>
        /\ th[t].ret.values = <<1 * Scale, 2 * Scale + 1, 0>>

(***************************************************************************)
(* SpecCancel: one goroutine handling queries whose context the caller may *)
(* cancel at any time.                                                     *)
(***************************************************************************)
NextCancel ==
    \E t \in {1} :
        \/ query_Call(t)
        \/ ctx_Cancel(t)
        \/ Idle(t)
        \/ GetApps_Cached(t)
        \/ getAPIClient_Lock(t)
        \/ getAPIClient_Unlock(t)
        \/ GetApps_List(t, CacheAppLists)
        \/ GetJobs_List(t)
        \/ GetApps_Install(t)
        \/ GetData_Do(t, DataResponses)

SpecCancel == Init /\ [][NextCancel]_vars

\* thread t waits for the answer to an HTTP request
AwaitsResponse(t) == th[t].pc \in {"apps_list", "jobs_list", "data_request"}

\* C23 (as claimed): when the context of a query is done while it waits for
\* the answer to an HTTP request, the next step of the query is its return,
\* with an error, holding no lock, and without taking an answer from the
\* remote API.
C23_CancelAbortsCall ==
    [][\A t \in Threads :
         (th[t].op = "query" /\ th[t].ctxDone /\ AwaitsResponse(t) /\ th'[t] # th[t])
           => /\ th'[t].pc = "done"
              /\ th'[t].ret.respError # NoError
              /\ th'[t].resp = th[t].resp
              /\ apiClientLock' # t]_vars

\* the IDs of the jobs in the Jobs of the applications of a response
JobIDsOf(r) ==
    UNION { { r.Apps[n].Jobs[k].JobID : k \in 1 .. Len(r.Apps[n].Jobs) } : n \in 1 .. Len(r.Apps) }

\* C27 (as claimed): in the snapshot in the cache, AppsMap holds under the ID
\* of every application of Apps that same application, with its jobs, and
\* JobsMap has exactly the IDs of the jobs of the applications of Apps as
\* keys.  (Slots of Apps without an ID are passed over.)
C27_MapsAgreeWithList ==
    ~data.isNil
      => LET r == data.applications
         IN /\ \A n \in 1 .. Len(r.Apps) :
                  r.Apps[n].AppID # ""
                    => /\ r.Apps[n].AppID \in DOMAIN r.AppsMap
                       /\ r.AppsMap[r.Apps[n].AppID] = r.Apps[n]
            /\ DOMAIN r.JobsMap = JobIDsOf(r)

(***************************************************************************)
(* SpecKeys: GetApps calls, one after the other, with either API key and   *)
(* every choice of parameters, and the clock.                              *)
(***************************************************************************)
NextKeys ==
    \/ Tick
    \/ \E t \in {1} :
        \/ GetApps_Call(t, Keys, ParamChoices)
        \/ Idle(t)
        \/ GetApps_Cached(t)
        \/ getAPIClient_Lock(t)
        \/ getAPIClient_Unlock(t)
        \/ GetApps_List(t, CacheAppLists)
        \/ GetJobs_List(t)
        \/ GetApps_Install(t)

SpecKeys == Init /\ [][NextKeys]_vars

\* C28: while the snapshot in the cache is not expired (the clock's Unix
\* second is before that of expiresOn), a GetApps call is answered with the
\* applications of that snapshot whatever its API key and its parameters are:
\* it makes no request, constructs no client and leaves the registry and the
\* cache as they are.
C28_CacheSharedByAllCallers ==
    [][\A t \in Threads :
         /\ (GetAppsIssued(t) /\ ~data.isNil
                /\ (now \div TicksPerSecond) < (data.expiresOn \div TicksPerSecond))
              => /\ th'[t].pc = "apps_cached"
                 /\ UNCHANGED <<apiClientCache, clientSeq, data>>
         /\ GetAppsAnswersCached(t)
              => /\ th'[t].pc = "done"
                 /\ th'[t].ret.apps = data.applications
                 /\ th'[t].netCalls = 0
                 /\ UNCHANGED <<apiClientCache, clientSeq, data>>]_vars

\* a call with the key k2 and with FetchInactiveApps was answered with the
\* snapshot fetched with k1 and without the inactive applications; the
\* registry has no client for k2
C28_Witness ==
    \E t \in Threads :
        /\ th[t].pc = "done" /\ th[t].op = "GetApps"
        /\ th[t].apiKey = "k2"
        /\ th[t].params.FetchInactiveApps /\ ~th[t].params.FetchJobs
        /\ th[t].netCalls = 0
        /\ ~data.isNil
        /\ th[t].ret.apps = data.applications
        /\ \E n \in 1 .. Len(data.applications.Apps) : data.applications.Apps[n] = ZeroApp
        /\ \E n \in 1 .. Len(data.applications.Apps) : Len(data.applications.Apps[n].Jobs) > 0
        /\ apiClientCache["k1"] # NoClient
        /\ apiClientCache["k2"] = NoClient

(***************************************************************************)
(* SpecHealth: one datasource handling health checks and queries, one      *)
(* after the other.                                                        *)
(***************************************************************************)
NextHealth ==
    \E t \in {1} :
        \/ CheckHealth_Call(t)
        \/ CheckHealth_Probe(t)
        \/ CheckHealth_Adopt(t)
        \/ query_Call(t)
        \/ Idle(t)
        \/ GetApps_Cached(t)
        \/ getAPIClient_Lock(t)
        \/ getAPIClient_Unlock(t)
        \/ GetApps_List(t, CacheAppLists)
        \/ GetJobs_List(t)
        \/ GetApps_Install(t)
        \/ GetData_Do(t, FewResponses)

SpecHealth == Init /\ [][NextHealth]_vars

\* a step of the CheckHealth call of thread t
CheckHealthStep(t) ==
    /\ th'[t] # th[t]
    /\ \/ th[t].pc = "idle" /\ th'[t].op = "CheckHealth"
       \/ th[t].op = "CheckHealth" /\ th[t].pc # "done"

\* C29: a step of CheckHealth on a datasource that has a client leaves the
\* client, its registry and its snapshot as they are; so does the return of
\* a CheckHealth that failed; and when a CheckHealth succeeds on a datasource
\* without client, the datasource gets the client that was probed: its
\* registry holds the probed ns1api client under the key and nothing else,
\* and it has no snapshot.
C29_HealthAdoptsOnlyIfNone ==
    [][\A t \in Threads :
         CheckHealthStep(t)
           => /\ pulsarClient
                   => UNCHANGED <<pulsarClient, apiClientCache, apiClientLock, data>>
              /\ (th'[t].pc = "done" /\ th'[t].ret.err # NoError)
                   => UNCHANGED <<pulsarClient, apiClientCache, apiClientLock, data>>
              /\ th'[t].pc # "done"
                   => UNCHANGED <<pulsarClient, apiClientCache, apiClientLock, data>>
              /\ (th'[t].pc = "done" /\ th'[t].ret.err = NoError /\ ~pulsarClient)
                   => /\ pulsarClient'
                      /\ apiClientCache'[th[t].apiKey] = th[t].client
                      /\ \A k \in Keys \ {th[t].apiKey} : apiClientCache'[k] = NoClient
                      /\ data'.isNil]_vars

\* a CheckHealth for the key k2 has succeeded on a datasource whose client
\* has a snapshot and a registry with k1 only: there is still no client for k2
C29_Witness ==
    \E t \in Threads :
        /\ th[t].op = "CheckHealth" /\ th[t].pc = "done"
        /\ th[t].ret.err = NoError
        /\ th[t].apiKey = "k2"
        /\ pulsarClient
        /\ ~data.isNil
        /\ apiClientCache["k1"] # NoClient
        /\ apiClientCache["k2"] = NoClient

(***************************************************************************)
(* SpecLocks: concurrent CheckAPIKey, GetApps (with GetJobs) and GetData   *)
(* calls on one PulsarClient.                                              *)
(***************************************************************************)
NextLocks ==
    \E t \in Threads :
        \/ CheckAPIKey_Call(t)
        \/ CheckAPIKey_Probe(t)
        \/ CheckAPIKey_Lock(t)
        \/ CheckAPIKey_Unlock(t)
        \/ GetApps_Call(t, {"k1"}, {[NoParams EXCEPT !.FetchJobs = TRUE]})
        \/ GetData_Call(t)
        \/ Idle(t)
        \/ GetApps_Cached(t)
        \/ getAPIClient_Lock(t)
        \/ getAPIClient_Unlock(t)
        \/ GetApps_List(t, CacheAppLists)
        \/ GetJobs_List(t)
        \/ GetApps_Install(t)
        \/ GetData_Do(t, FewResponses)

SpecLocks == Init /\ [][NextLocks]_vars

\* thread t is between Lock() and the deferred Unlock() of apiClientLock
InCriticalSection(t) == th[t].pc \in {"gac_unlock", "cak_unlock"}

\* thread t waits at Lock()
AwaitsLock(t) == th[t].pc \in {"gac_lock", "cak_lock"}

\* thread t waits for the answer to an HTTP request
OnNetwork(t) == th[t].pc \in {"cak_probe", "apps_list", "jobs_list", "data_request"}

\* C30: the lock of the registry is held only between Lock() and the
\* deferred Unlock() of getAPIClient and CheckAPIKey, a section with no HTTP
\* request and no Lock(): a thread that waits for an answer, that has
\* returned or that waits at Lock() does not hold it, and a thread that waits
\* at Lock() finds the lock free or held by a thread that is about to unlock.
C30_NoLockAcrossNetwork ==
    \A t \in Threads :
        /\ apiClientLock = t => InCriticalSection(t)
        /\ InCriticalSection(t) => apiClientLock = t
        /\ (OnNetwork(t) \/ AwaitsLock(t) \/ th[t].pc \in {"idle", "done", "panicked"})
             => apiClientLock # t
        /\ AwaitsLock(t)
             => \/ apiClientLock = 0
                \/ \E u \in Threads \ {t} : apiClientLock = u /\ InCriticalSection(u)

\* one thread waits for the listing of jobs, after it has been through
\* getAPIClient twice, while another holds the lock in CheckAPIKey
C30_Witness ==
    \E t, u \in Threads :
        /\ t # u
        /\ th[t].pc = "jobs_list" /\ th[t].netCalls = 1
        /\ th[u].pc = "cak_unlock" /\ apiClientLock = u
====
